---------------------------- MODULE Spec2Model ----------------------------
(***************************************************************************)
(* Model of data_extraction.py: five compiled regular expressions (email,  *)
(* URL, phone number, credit card number, time of day), the table of       *)
(* sample strings, and the run_tests loop that prints MATCH / NO MATCH.    *)
(*                                                                         *)
(* A string is a sequence of characters.  A character is a one-element     *)
(* token: a printable ASCII character stands for itself, "\n", "\t" for    *)
(* the control characters, and a token "U+XXXX" for one non-ASCII code     *)
(* point.  A pattern is the syntax tree of the regular expression in the   *)
(* source; Ends computes, as Python's re does for a str pattern, the set   *)
(* of positions at which a match of the tree may end.                      *)
(***************************************************************************)
EXTENDS Integers, Sequences, FiniteSets

VARIABLES
    patterns,      \* run_tests' mapping category -> compiled pattern (by name)
    test_strings,  \* the module-level sample table
    category,      \* category of the caller's (ad-hoc) validation
    sample,        \* the string the caller validates
    result,        \* the boolean of the caller's latest validation
    first,         \* the boolean of the caller's first validation
    calls,         \* how many times the caller has validated `sample`
    pc,            \* position of run_tests: idle, loop, samples, done, error
    ci,            \* index of the current category in patterns.items()
    si,            \* index of the current sample in test_strings[category]
    output         \* the lines printed so far

vars == <<patterns, test_strings, category, sample, result, first, calls,
          pc, ci, si, output>>

(***************************************************************************)
(* Characters and the character classes of Python 3's re (str patterns:    *)
(* \w, \d and \s are Unicode-aware).                                       *)
(***************************************************************************)
LowerLetters == <<"a","b","c","d","e","f","g","h","i","j","k","l","m",
                  "n","o","p","q","r","s","t","u","v","w","x","y","z">>
UpperLetters == <<"A","B","C","D","E","F","G","H","I","J","K","L","M",
                  "N","O","P","Q","R","S","T","U","V","W","X","Y","Z">>

Range(seq) == {seq[i] : i \in DOMAIN seq}

AsciiLower == Range(LowerLetters)
AsciiUpper == Range(UpperLetters)
AsciiLetters == AsciiLower \cup AsciiUpper
AsciiDigits == {"0","1","2","3","4","5","6","7","8","9"}
AsciiAlnum == AsciiLetters \cup AsciiDigits

\* Representatives of the non-ASCII code points: a letter (a-umlaut), a
\* decimal digit (ARABIC-INDIC DIGIT THREE) and a space (NO-BREAK SPACE).
UnicodeLetters == {"U+00E4"}
UnicodeDigits == {"U+0663"}
UnicodeSpaces == {"U+00A0"}

\* \d in a str pattern: any Unicode decimal digit.
Digit == AsciiDigits \cup UnicodeDigits
\* \w in a str pattern: Unicode letters and digits, and the underscore.
Word == AsciiAlnum \cup {"_"} \cup UnicodeLetters \cup UnicodeDigits
\* \s in a str pattern: Unicode whitespace.
Space == {" ", "\t", "\n", "\r"} \cup UnicodeSpaces

\* str.lower on one character of the alphabet (re.IGNORECASE compares
\* characters by their lower-case form).
Lower(c) ==
    IF c \in AsciiUpper
    THEN LowerLetters[CHOOSE i \in DOMAIN UpperLetters : UpperLetters[i] = c]
    ELSE c

Upper(c) ==
    IF c \in AsciiLower
    THEN UpperLetters[CHOOSE i \in DOMAIN LowerLetters : LowerLetters[i] = c]
    ELSE c

(***************************************************************************)
(* Pattern syntax trees.                                                   *)
(***************************************************************************)
Lit(c) == [t |-> "lit", c |-> c]
In(S) == [t |-> "in", set |-> S]
Cat(rs) == [t |-> "seq", rs |-> rs]
Alt(rs) == [t |-> "alt", rs |-> rs]
\* r{lo,hi}
Rep(r, lo, hi) == [t |-> "rep", r |-> r, lo |-> lo, hi |-> hi, inf |-> FALSE]
\* r{lo,}
AtLeast(r, lo) == [t |-> "rep", r |-> r, lo |-> lo, hi |-> lo, inf |-> TRUE]
Opt(r) == Rep(r, 0, 1)
Star(r) == AtLeast(r, 0)
Plus(r) == AtLeast(r, 1)
Bol == [t |-> "bol"]
Eol == [t |-> "eol"]

\* One character against a literal or a class, under the pattern's flags.
CharMatches(r, c, ic) ==
    IF r.t = "lit"
    THEN IF ic THEN Lower(c) = Lower(r.c) ELSE c = r.c
    ELSE IF ic
         THEN c \in r.set \/ Lower(c) \in r.set \/ Upper(c) \in r.set
         ELSE c \in r.set

\* "$" that holds at every position, as if the pattern had no "$".
AtEolAnywhere(s, p) == p <= Len(s) + 1

\* "$" without re.MULTILINE: at the end of the string, or just before a
\* newline that is the last character of the string.
AtEol(s, p) == p = Len(s) + 1 \/ (p = Len(s) /\ s[p] = "\n")

\* "^" without re.MULTILINE: at the start of the string.
AtBol(s, p) == p = 1

RECURSIVE Ends(_, _, _, _)
RECURSIVE EndsSeq(_, _, _, _, _)
RECURSIVE EndsRep(_, _, _, _, _, _, _)

\* The positions at which a match of r that starts at a position of P may
\* end in s (positions are 1-based; Len(s) + 1 is the end of the string).
Ends(r, s, P, ic) ==
    CASE r.t \in {"lit", "in"} ->
           {p + 1 : p \in {q \in P : q <= Len(s) /\ CharMatches(r, s[q], ic)}}
      [] r.t = "bol" -> {p \in P : AtBol(s, p)}
      [] r.t = "eol" -> {p \in P : AtEol(s, p)}
      [] r.t = "seq" -> EndsSeq(r.rs, 1, s, P, ic)
      [] r.t = "alt" -> UNION {Ends(r.rs[i], s, P, ic) : i \in DOMAIN r.rs}
      [] r.t = "rep" -> EndsRep(r.r, r.lo, r.hi, r.inf, s, P, ic)

EndsSeq(rs, i, s, P, ic) ==
    IF i > Len(rs) \/ P = {}
    THEN P
    ELSE EndsSeq(rs, i + 1, s, Ends(rs[i], s, P, ic), ic)

EndsRep(r, lo, hi, inf, s, P, ic) ==
    IF P = {} THEN {}
    ELSE IF lo > 0
         THEN EndsRep(r, lo - 1, hi - 1, inf, s, Ends(r, s, P, ic), ic)
    ELSE IF inf
         THEN P \cup EndsRep(r, 0, 0, TRUE, s, Ends(r, s, P, ic) \ P, ic)
    ELSE IF hi > 0
         THEN P \cup EndsRep(r, 0, hi - 1, FALSE, s, Ends(r, s, P, ic), ic)
    ELSE P

\* A matcher that keeps a position between calls (as a sticky or global
\* pattern object does): every second call on a pattern starts past the match.
MatchKeepingPosition(regex, s) ==
    Ends(regex.ast, s, {1}, regex.ignorecase) # {} /\ calls % 2 = 0

\* Pattern.match(s): a match that starts at the start of s (and ends where
\* the pattern lets it end); the harness only tests whether there is one.
Match(regex, s) == Ends(regex.ast, s, {1}, regex.ignorecase) # {}

(***************************************************************************)
(* The five compiled patterns.                                             *)
(***************************************************************************)
\* ^[a-zA-Z0-9]+(?:[._+-][a-zA-Z0-9]+)*@[a-zA-Z0-9-]+(?:\.[a-zA-Z]{2,})+$
email_regex ==
    [ast |-> Cat(<<Bol,
                   Plus(In(AsciiAlnum)),
                   Star(Cat(<<In({".", "_", "+", "-"}), Plus(In(AsciiAlnum))>>)),
                   Lit("@"),
                   Plus(In(AsciiAlnum \cup {"-"})),
                   Plus(Cat(<<Lit("."), AtLeast(In(AsciiLetters), 2)>>)),
                   Eol>>),
     ignorecase |-> FALSE]

\* ^https?://(?:[\w-]+\.)+[\w-]+(?:/[\w\-./?%&=]*)?$
url_regex ==
    [ast |-> Cat(<<Bol,
                   Lit("h"), Lit("t"), Lit("t"), Lit("p"), Opt(Lit("s")),
                   Lit(":"), Lit("/"), Lit("/"),
                   Plus(Cat(<<Plus(In(Word \cup {"-"})), Lit(".")>>)),
                   Plus(In(Word \cup {"-"})),
                   Opt(Cat(<<Lit("/"),
                             Star(In(Word \cup {"-", ".", "/", "?", "%", "&", "="}))>>)),
                   Eol>>),
     ignorecase |-> FALSE]

\* The phone pattern with both separators required:
\* ^(?:\(\d{3}\)|\d{3})[-.\s]\d{3}[-.\s]\d{4}$
phone_regex_separators_required ==
    [ast |-> Cat(<<Bol,
                   Alt(<<Cat(<<Lit("("), Rep(In(Digit), 3, 3), Lit(")")>>),
                         Rep(In(Digit), 3, 3)>>),
                   In({"-", "."} \cup Space),
                   Rep(In(Digit), 3, 3),
                   In({"-", "."} \cup Space),
                   Rep(In(Digit), 4, 4),
                   Eol>>),
     ignorecase |-> FALSE]

\* ^(?:\(\d{3}\)|\d{3})[-.\s]?\d{3}[-.\s]?\d{4}$
phone_regex ==
    [ast |-> Cat(<<Bol,
                   Alt(<<Cat(<<Lit("("), Rep(In(Digit), 3, 3), Lit(")")>>),
                         Rep(In(Digit), 3, 3)>>),
                   Opt(In({"-", "."} \cup Space)),
                   Rep(In(Digit), 3, 3),
                   Opt(In({"-", "."} \cup Space)),
                   Rep(In(Digit), 4, 4),
                   Eol>>),
     ignorecase |-> FALSE]

\* ^(?:\d{4}[- ]?){3}\d{4}$
credit_card_regex ==
    [ast |-> Cat(<<Bol,
                   Rep(Cat(<<Rep(In(Digit), 4, 4), Opt(In({"-", " "}))>>), 3, 3),
                   Rep(In(Digit), 4, 4),
                   Eol>>),
     ignorecase |-> FALSE]

\* ^((([01]\d|2[0-3]):[0-5]\d)|((0?[1-9]|1[0-2]):[0-5]\d\s?(?:AM|PM)))$
\* compiled with re.IGNORECASE
time_regex ==
    [ast |-> Cat(<<Bol,
                   Alt(<<Cat(<<Alt(<<Cat(<<In({"0", "1"}), In(Digit)>>),
                                     Cat(<<Lit("2"), In({"0", "1", "2", "3"})>>)>>),
                               Lit(":"),
                               In({"0", "1", "2", "3", "4", "5"}), In(Digit)>>),
                         Cat(<<Alt(<<Cat(<<Opt(Lit("0")), In(AsciiDigits \ {"0"})>>),
                                     Cat(<<Lit("1"), In({"0", "1", "2"})>>)>>),
                               Lit(":"),
                               In({"0", "1", "2", "3", "4", "5"}), In(Digit),
                               Opt(In(Space)),
                               Alt(<<Cat(<<Lit("A"), Lit("M")>>),
                                     Cat(<<Lit("P"), Lit("M")>>)>>)>>)>>),
                   Eol>>),
     ignorecase |-> TRUE]

\* The pattern object a name is bound to.
Compiled(name) ==
    CASE name = "email_regex" -> email_regex
      [] name = "url_regex" -> url_regex
      [] name = "phone_regex" -> phone_regex
      [] name = "credit_card_regex" -> credit_card_regex
      [] name = "time_regex" -> time_regex


(***************************************************************************)
(* The sample table and run_tests' mapping of categories to patterns.      *)
(***************************************************************************)
\* test_strings, as the module defines it.
TestStrings ==
    [
     emails |->
        <<<<"u","s","e","r","@","e","x","a","m","p","l","e",".","c","o",
            "m">>,
          <<"f","i","r","s","t","n","a","m","e",".","l","a","s","t","n","a",
            "m","e","@","c","o","m","p","a","n","y",".","c","o",".","u",
            "k">>,
          <<"i","n","v","a","l","i","d","_","e","m","a","i","l","@",".","c",
            "o","m">>>>,
     urls |->
        <<<<"h","t","t","p","s",":","/","/","w","w","w",".","e","x","a","m",
            "p","l","e",".","c","o","m">>,
          <<"h","t","t","p",":","/","/","s","u","b","d","o","m","a","i","n",
            ".","e","x","a","m","p","l","e",".","o","r","g","/","p","a","g",
            "e">>,
          <<"f","t","p",":","/","/","n","o","t","-","v","a","l","i","d",".",
            "c","o","m">>>>,
     phone_numbers |->
        <<<<"(","1","2","3",")"," ","4","5","6","-","7","8","9","0">>,
          <<"1","2","3","-","4","5","6","-","7","8","9","0">>,
          <<"1","2","3",".","4","5","6",".","7","8","9","0">>,
          <<"1","2","3","4","5","6","7","8","9","0">>>>,
     credit_cards |->
        <<<<"1","2","3","4"," ","5","6","7","8"," ","9","0","1","2"," ","3",
            "4","5","6">>,
          <<"1","2","3","4","-","5","6","7","8","-","9","0","1","2","-","3",
            "4","5","6">>,
          <<"1","2","3","4","5","6","7","8","9","0","1","2","3","4","5",
            "6">>>>,
     times |->
        <<<<"1","4",":","3","0">>,
          <<"2",":","3","0"," ","P","M">>,
          <<"2","5",":","0","0">>,
          <<"0","2",":","6","0"," ","A","M">>>>
    ]

\* The dict literal with the entry for "times" left out.
PatternItemsWithoutTimes ==
    <<<<"emails", "email_regex">>,
      <<"urls", "url_regex">>,
      <<"phone_numbers", "phone_regex">>,
      <<"credit_cards", "credit_card_regex">>>>

\* run_tests' dict literal, as the sequence of its (key, value) entries: a
\* dict keeps its entries in insertion order.
PatternItems ==
    <<<<"emails", "email_regex">>,
      <<"urls", "url_regex">>,
      <<"phone_numbers", "phone_regex">>,
      <<"credit_cards", "credit_card_regex">>,
      <<"times", "time_regex">>>>

\* The keys that patterns.items() yields, in order.
PatternOrder == [i \in DOMAIN PatternItems |-> PatternItems[i][1]]

\* The dict as a mapping.
Patterns ==
    [cat \in Range(PatternOrder) |->
       PatternItems[CHOOSE i \in DOMAIN PatternItems : PatternItems[i][1] = cat][2]]

\* The five categories a caller may validate against.
Categories == {"emails", "urls", "phone_numbers", "credit_cards", "times"}

\* category.upper() for the keys of the dict literal.
UpperName(cat) ==
    CASE cat = "emails" -> "EMAILS"
      [] cat = "urls" -> "URLS"
      [] cat = "phone_numbers" -> "PHONE_NUMBERS"
      [] cat = "credit_cards" -> "CREDIT_CARDS"
      [] cat = "times" -> "TIMES"

\* print(f"\nTesting {category.upper()}:")
HeaderLine(cat) == <<"header", UpperName(cat)>>

\* "MATCH" if regex.match(sample) else "NO MATCH"
Verdict(regex, s) == IF Match(regex, s) THEN "MATCH" ELSE "NO MATCH"

\* print(f"  {sample!r:30} -> {result}")
ResultLine(s, verdict) == <<"result", s, verdict>>

(***************************************************************************)
(* The strings a caller validates.  Each category's inputs are assembled   *)
(* from parts (well-formed and malformed ones), and every sample of the    *)
(* table also appears with one character put before it or after it.        *)
(***************************************************************************)
\* How many times a caller validates its string.
MaxCalls == 2

EmailLocals ==
    {<<"u","s","e","r">>,
     <<"f","i","r","s","t","n","a","m","e",".","l","a","s","t","n","a","m","e">>,
     <<"i","n","v","a","l","i","d","_","e","m","a","i","l">>,
     <<"a",".",".","b">>, <<".","a">>, <<"a",".">>,
     <<"a","_","b","+","c","-","d">>, <<"U+00E4">>, <<>>}

EmailLabels ==
    {<<"e","x","a","m","p","l","e">>, <<"c","o","m","p","a","n","y">>, <<>>,
     <<"a","-","b">>, <<"a","_","b">>}

EmailSuffixes ==
    {<<".","c","o","m">>, <<".","c","o",".","u","k">>, <<".","c">>,
     <<".","c","0","m">>, <<>>, <<".","c","o","m","\n">>,
     <<".","c","o","m",".">>}

UrlSchemes ==
    {<<"h","t","t","p",":","/","/">>, <<"h","t","t","p","s",":","/","/">>,
     <<"f","t","p",":","/","/">>, <<"H","T","T","P",":","/","/">>,
     <<"h","t","t","p",":","/">>}

UrlHosts ==
    {<<"w","w","w",".","e","x","a","m","p","l","e",".","c","o","m">>,
     <<"s","u","b","d","o","m","a","i","n",".","e","x","a","m","p","l","e",".","o","r","g">>,
     <<"n","o","t","-","v","a","l","i","d",".","c","o","m">>,
     <<"l","o","c","a","l","h","o","s","t">>,
     <<"a",".","c","o","m",":","8","0">>,
     <<"w","w","w",".","e","x","U+00E4","m","p","l","e",".","c","o","m">>,
     <<"a",".",".","b">>, <<"_",".","_">>}

UrlPaths ==
    {<<>>, <<"/">>, <<"/","p","a","g","e">>, <<"?","x","=","1">>,
     <<"/","a","?","x","=","1","&","y","=","%","2","0">>,
     <<"/","a"," ","b">>, <<"\n">>, <<"/","p","a","g","e","\n">>}

PhoneAreas ==
    {<<"1","2","3">>, <<"(","1","2","3",")">>, <<"(","1","2","3">>,
     <<"1","2","3",")">>, <<"1","2","U+0663">>}

PhoneFirstSeps ==
    {<<>>, <<" ">>, <<"-">>, <<".">>, <<"-","-">>}

PhoneSecondSeps ==
    {<<>>, <<"-">>, <<"\n">>, <<"."," ">>}

PhoneLines ==
    {<<"7","8","9","0">>, <<"7","8","9">>, <<"7","8","9","0","1">>,
     <<"7","8","9","0","\n">>}

CardFirstSeps ==
    {<<>>, <<"-">>, <<" ">>, <<"-","-">>}

CardSecondSeps ==
    {<<>>, <<"-">>, <<" ">>}

CardThirds ==
    {<<"9","0","1","2">>, <<"9","0","1">>}

CardThirdSeps ==
    {<<>>, <<" ">>, <<"-">>}

CardLasts ==
    {<<"3","4","5","6">>, <<"3","4","5","6","-">>, <<"3","4","5","6","\n">>,
     <<"3","4","5","6","7">>, <<"3","4","5","U+0663">>}

TimeHours ==
    {<<"1","4">>, <<"2">>, <<"0","2">>, <<"2","5">>, <<"0","0">>,
     <<"1","2">>, <<"1","3">>, <<"2","3">>, <<"2","4">>, <<"1","U+0663">>}

TimeMinutes ==
    {<<"3","0">>, <<"0","0">>, <<"6","0">>, <<"1","5">>}

TimeTails ==
    {<<>>, <<" ","P","M">>, <<" ","p","m">>, <<"P","M">>, <<" ","A","M">>,
     <<" "," ","P","M">>, <<"\t","A","m">>, <<"\n">>, <<" ","P","M","\n">>}

PadChars ==
    {<<"x">>, <<"1">>, <<"0">>, <<" ">>, <<"\n">>, <<".">>, <<"-">>,
     <<"@">>, <<"/">>, <<"(">>, <<"U+00E4">>, <<"U+0663">>, <<"!">>}

At == <<"@">>
Colon == <<":">>
CardFirst == <<"1","2","3","4">>
CardSecond == <<"5","6","7","8">>
PhoneExchange == <<"4","5","6">>

Padded(cat) ==
    UNION {{<<c[1]>> \o TestStrings[cat][i], TestStrings[cat][i] \o <<c[1]>>} :
             c \in PadChars, i \in DOMAIN TestStrings[cat]}

Inputs(cat) ==
    {<<>>} \cup Padded(cat) \cup
    CASE cat = "emails" ->
           {l \o At \o d \o x : l \in EmailLocals, d \in EmailLabels,
                                x \in EmailSuffixes}
      [] cat = "urls" ->
           {a \o h \o p : a \in UrlSchemes, h \in UrlHosts, p \in UrlPaths}
      [] cat = "phone_numbers" ->
           {a \o f \o PhoneExchange \o g \o l :
              a \in PhoneAreas, f \in PhoneFirstSeps, g \in PhoneSecondSeps,
              l \in PhoneLines}
      [] cat = "credit_cards" ->
           {CardFirst \o f \o CardSecond \o g \o t \o h \o l :
              f \in CardFirstSeps, g \in CardSecondSeps, t \in CardThirds,
              h \in CardThirdSeps, l \in CardLasts}
      [] cat = "times" ->
           {h \o Colon \o m \o t : h \in TimeHours, m \in TimeMinutes,
                                   t \in TimeTails}

(***************************************************************************)
(* The state machine.                                                      *)
(***************************************************************************)
Init ==
    /\ patterns = Patterns
    /\ test_strings = TestStrings
    /\ category \in Categories
    /\ sample \in Inputs(category)
    /\ result = FALSE
    /\ first = FALSE
    /\ calls = 0
    /\ pc = "idle"
    /\ ci = 1
    /\ si = 1
    /\ output = <<>>

\* The conditions under which each step of run_tests is taken.
CanRunTests == pc = "idle"
CanNextCategory == pc = "loop" /\ ci <= Len(PatternOrder)
CanTestSample == pc = "samples" /\ si <= Len(test_strings[PatternOrder[ci]])
CanEndCategory == pc = "samples" /\ si > Len(test_strings[PatternOrder[ci]])
CanReturn == pc = "loop" /\ ci > Len(PatternOrder)

\* A caller's validation of its string: bool(regex.match(sample)).
Validate ==
    /\ calls < MaxCalls
    /\ result' = Match(Compiled(patterns[category]), sample)
    /\ first' = IF calls = 0 THEN result' ELSE first
    /\ calls' = calls + 1
    /\ UNCHANGED <<patterns, test_strings, category, sample, pc, ci, si, output>>

\* run_tests is called: it builds its mapping and enters the outer loop.
RunTests ==
    /\ CanRunTests
    /\ patterns' = Patterns
    /\ ci' = 1
    /\ pc' = "loop"
    /\ UNCHANGED <<test_strings, category, sample, result, first, calls, si, output>>

\* One iteration of the outer loop begins: the header is printed, then
\* test_strings[category] is looked up (a KeyError ends the run).
NextCategory ==
    /\ CanNextCategory
    /\ output' = Append(output, HeaderLine(PatternOrder[ci]))
    /\ si' = 1
    /\ pc' = IF PatternOrder[ci] \in DOMAIN test_strings THEN "samples" ELSE "error"
    /\ UNCHANGED <<patterns, test_strings, category, sample, result, first, calls, ci>>

\* One iteration of the inner loop: the sample is matched and its line printed.
TestSample ==
    /\ CanTestSample
    /\ LET cat == PatternOrder[ci]
           s == test_strings[cat][si]
       IN output' = Append(output,
                           ResultLine(s, Verdict(Compiled(patterns[cat]), s)))
    /\ si' = si + 1
    /\ UNCHANGED <<patterns, test_strings, category, sample, result, first, calls, pc, ci>>

\* The inner loop is exhausted: on to the next entry of patterns.items().
EndCategory ==
    /\ CanEndCategory
    /\ ci' = ci + 1
    /\ pc' = "loop"
    /\ UNCHANGED <<patterns, test_strings, category, sample, result, first, calls, si, output>>

\* The outer loop is exhausted: run_tests returns.
Return ==
    /\ CanReturn
    /\ pc' = "done"
    /\ UNCHANGED <<patterns, test_strings, category, sample, result, first, calls, ci, si, output>>

Next ==
    \/ Validate
    \/ RunTests
    \/ NextCategory
    \/ TestSample
    \/ EndCategory
    \/ Return

Spec == Init /\ [][Next]_vars


(***************************************************************************)
(* Properties.                                                             *)
(***************************************************************************)
\* The caller has validated its string at least once.
Validated == calls >= 1

\* What validating s against a category's pattern returns.
Accepts(cat, s) == Match(Compiled(Patterns[cat]), s)

\* s without its last character.
Front(s) == SubSeq(s, 1, Len(s) - 1)

\* The whole of s, from its first character to its last, is a match of ast.
FullMatch(ast, s) == (Len(s) + 1) \in Ends(ast, s, {1}, FALSE)

\* A word character in the documented sense: [A-Za-z0-9_].
AsciiWord == AsciiAlnum \cup {"_"}

ExampleEmail == <<"u","s","e","r","@","e","x","a","m","p","l","e",".","c","o","m">>

Unanchored(regex) == Cat(SubSeq(regex.ast.rs, 2, Len(regex.ast.rs) - 1))

\* The whole of s is a match of the pattern's tree, under the pattern's flags.
WholeMatch(regex, s) ==
    (Len(s) + 1) \in Ends(Unanchored(regex), s, {1}, regex.ignorecase)

EmailGrammar ==
    Cat(<<Plus(In(AsciiAlnum)),
          Star(Cat(<<In({".", "_", "+", "-"}), Plus(In(AsciiAlnum))>>)),
          Lit("@"),
          Plus(In(AsciiAlnum \cup {"-"})),
          Plus(Cat(<<Lit("."), AtLeast(In(AsciiLetters), 2)>>))>>)

\* C2: the email validator accepts a string if and only if the entire string
\* has the documented form (local part, "@", domain label, dotted suffixes of
\* two or more letters).
EmailAcceptsExactlyGrammar ==
    (Validated /\ category = "emails") =>
      (result <=> FullMatch(EmailGrammar, sample))

Minute == Cat(<<In({"0", "1", "2", "3", "4", "5"}), In(AsciiDigits)>>)

\* The time grammar as documented: HH:MM with HH in 00..23, or H:MM / HH:MM
\* with the hour in 1..12, at most one whitespace character and AM or PM in
\* any letter case.
TimeGrammar ==
    Alt(<<Cat(<<Alt(<<Cat(<<In({"0", "1"}), In(AsciiDigits)>>),
                      Cat(<<Lit("2"), In({"0", "1", "2", "3"})>>)>>),
                Lit(":"), Minute>>),
          Cat(<<Alt(<<Cat(<<Opt(Lit("0")), In(AsciiDigits \ {"0"})>>),
                      Cat(<<Lit("1"), In({"0", "1", "2"})>>)>>),
                Lit(":"), Minute,
                Opt(In(Space)),
                In({"A", "a", "P", "p"}), In({"M", "m"})>>)>>)

\* C3: the time validator accepts a string if and only if the entire string
\* is a 24-hour time 00:00..23:59 or a 12-hour time with an AM/PM marker.
TimeAcceptsExactlyGrammar ==
    (Validated /\ category = "times") =>
      (result <=> FullMatch(TimeGrammar, sample))

PhoneSeparator == Opt(In({"-", "."} \cup Space))

\* The phone grammar as documented.
PhoneGrammar ==
    Cat(<<Alt(<<Rep(In(AsciiDigits), 3, 3),
                Cat(<<Lit("("), Rep(In(AsciiDigits), 3, 3), Lit(")")>>)>>),
          PhoneSeparator,
          Rep(In(AsciiDigits), 3, 3),
          PhoneSeparator,
          Rep(In(AsciiDigits), 4, 4)>>)

\* C4: the phone validator accepts a string if and only if the entire string
\* is an area code (three digits, bare or in parentheses), at most one
\* separator, three digits, at most one separator, four digits.
PhoneAcceptsExactlyGrammar ==
    (Validated /\ category = "phone_numbers") =>
      (result <=> FullMatch(PhoneGrammar, sample))

\* The credit card grammar as documented.
CardGrammar ==
    Cat(<<Rep(Cat(<<Rep(In(AsciiDigits), 4, 4), Opt(In({"-", " "}))>>), 3, 3),
          Rep(In(AsciiDigits), 4, 4)>>)

\* C5: the credit card validator accepts a string if and only if the entire
\* string is four groups of four digits, each of the first three followed by
\* at most one '-' or ' ', the fourth by nothing.
CardAcceptsExactlyGrammar ==
    (Validated /\ category = "credit_cards") =>
      (result <=> FullMatch(CardGrammar, sample))

\* The URL grammar as documented.
UrlGrammar ==
    Cat(<<Lit("h"), Lit("t"), Lit("t"), Lit("p"), Opt(Lit("s")),
          Lit(":"), Lit("/"), Lit("/"),
          Plus(Cat(<<Plus(In(AsciiWord \cup {"-"})), Lit(".")>>)),
          Plus(In(AsciiWord \cup {"-"})),
          Opt(Cat(<<Lit("/"),
                    Star(In(AsciiWord \cup {"-", ".", "/", "?", "%", "&", "="}))>>))>>)

\* C6: the URL validator accepts a string if and only if the entire string
\* is "http://" or "https://", dotted host labels and an optional path of
\* the listed characters.
UrlAcceptsExactlyGrammar ==
    (Validated /\ category = "urls") =>
      (result <=> FullMatch(UrlGrammar, sample))

\* The documented grammar of a category.
Grammar(cat) ==
    CASE cat = "emails" -> EmailGrammar
      [] cat = "urls" -> UrlGrammar
      [] cat = "phone_numbers" -> PhoneGrammar
      [] cat = "credit_cards" -> CardGrammar
      [] cat = "times" -> TimeGrammar

\* s ends with a newline, or holds a non-ASCII letter or digit.
HasDefectTrigger(s) ==
    \/ (Len(s) >= 1 /\ s[Len(s)] = "\n")
    \/ \E i \in DOMAIN s : s[i] \in UnicodeLetters \cup UnicodeDigits

\* Supporting fact for C2-C6: the patterns and the documented grammars differ
\* only on strings that end with a newline or hold a non-ASCII letter or digit.
GrammarsAgreeApartFromDefects ==
    (Validated /\ ~HasDefectTrigger(sample)) =>
      (result <=> FullMatch(Grammar(category), sample))

\* The verdicts the documentation lists, per category, in sample order.
ExpectedVerdicts ==
    [emails |-> <<"MATCH", "MATCH", "NO MATCH">>,
     urls |-> <<"MATCH", "MATCH", "NO MATCH">>,
     phone_numbers |-> <<"MATCH", "MATCH", "MATCH", "MATCH">>,
     credit_cards |-> <<"MATCH", "MATCH", "MATCH">>,
     times |-> <<"MATCH", "MATCH", "NO MATCH", "NO MATCH">>]

ExpectedBlock(cat) ==
    <<<<"header", UpperName(cat)>>>> \o
    [i \in 1..Len(ExpectedVerdicts[cat]) |->
       <<"result", TestStrings[cat][i], ExpectedVerdicts[cat][i]>>]

ExpectedOutput ==
    ExpectedBlock("emails") \o ExpectedBlock("urls") \o
    ExpectedBlock("phone_numbers") \o ExpectedBlock("credit_cards") \o
    ExpectedBlock("times")

IsPrefix(s, t) == Len(s) <= Len(t) /\ s = SubSeq(t, 1, Len(s))

Count(kind) == Cardinality({i \in DOMAIN output : output[i][1] = kind})

HeaderOf(i) ==
    output[CHOOSE j \in 1..i :
             /\ output[j][1] = "header"
             /\ \A k \in (j + 1)..i : output[k][1] # "header"][2]

Lockstep ==
    /\ DOMAIN test_strings = DOMAIN patterns
    /\ DOMAIN patterns = Categories
    /\ Range(PatternOrder) = Categories
    /\ Len(PatternOrder) = Cardinality(Categories)
    /\ pc # "error"
    /\ pc \in {"loop", "samples"} /\ ci <= Len(PatternOrder) =>
         PatternOrder[ci] \in DOMAIN test_strings
    /\ pc = "done" =>
         \A cat \in DOMAIN test_strings :
           /\ \E i \in DOMAIN output : output[i] = HeaderLine(cat)
           /\ Cardinality({i \in DOMAIN output :
                             output[i][1] = "result" /\ HeaderOf(i) = UpperName(cat)})
                = Len(test_strings[cat])

LockstepWitness == pc = "samples" /\ ci = Len(PatternOrder) /\ si > 1

\* C10: ASCII-only character classes: no accepted string holds a non-ASCII
\* letter or digit.
AcceptedStringsAreAscii ==
    (Validated /\ result) =>
      \A i \in DOMAIN sample : sample[i] \notin UnicodeLetters \cup UnicodeDigits

=============================================================================
